---- MODULE Spec2Model ----
(***************************************************************************)
(* The code fragments of the ATtiny85 optimization guide                   *)
(* (attiny_code_optimization_guide.h, README.md) as state machines over    *)
(* 8-bit machine values.  The guide holds independent fragments and no     *)
(* program that runs them together, so a behaviour executes one fragment,  *)
(* named by frag, from its inputs to its end.                              *)
(***************************************************************************)
EXTENDS Integers, Sequences, FiniteSets

\* ---------------------------------------------------------------- widths

\* uint8_t, and the 8-bit I/O register DDRB
UInt8Bits == 8

UInt8 == 0 .. (2^UInt8Bits - 1)

\* Port B bit numbers of the ATtiny85 used by the TinyJoypad initialisation
PB1 == 1
PB3 == 3
PB4 == 4
PB5 == 5

\* ---------------------------------------------------------------- bounds

\* how many times the pin initialisation is run in a behaviour
MaxRuns == 2

\* c[0] holds a value of 0 .. MaxC0 before the reproduction snippet runs
MaxC0 == 7

\* the selector of the switch statement ranges over 0 .. MaxSel
MaxSel == 3

\* ------------------------------------------------------- bit arithmetic

\* bit i of v
BitAt(v, i) == (v \div (2^i)) % 2

RECURSIVE FromBits(_, _)
\* the number whose bit i is f[i], for bits 0 .. w-1
FromBits(f, w) ==
    IF w = 0 THEN 0 ELSE FromBits(f, w - 1) + f[w - 1] * 2^(w - 1)

\* a & b on 8-bit operands
BitAnd(a, b) ==
    FromBits([i \in 0 .. UInt8Bits - 1 |-> BitAt(a, i) * BitAt(b, i)], UInt8Bits)

\* a | b on 8-bit operands
BitOr(a, b) ==
    FromBits([i \in 0 .. UInt8Bits - 1 |->
                 IF BitAt(a, i) + BitAt(b, i) > 0 THEN 1 ELSE 0], UInt8Bits)

\* ~a, as far as it reaches an 8-bit register
BitNot(a) ==
    FromBits([i \in 0 .. UInt8Bits - 1 |-> 1 - BitAt(a, i)], UInt8Bits)

\* the value a uint8_t holds after being assigned v
Truncate8(v) == v % (2^UInt8Bits)

\* a uint16_t in place of the uint8_t
Truncate16(v) == v % (2^(2 * UInt8Bits))

\* the width the loop variable bitValue is declared with
TruncateBitValue(v) == Truncate8(v)

\* v <<= 1 on the loop variable: one shift, truncated to the variable
Shl1(v) == TruncateBitValue(v * 2)

\* 1 << n with the shift count one too high
ShlNOffByOne(v, n) == v * 2^(n + 1)

RECURSIVE ShlN(_, _)
\* v << n, computed in int: the ATtiny85 shifts one bit at a time, n times
ShlN(v, n) == IF n = 0 THEN v ELSE ShlN(v * 2, n - 1)

\* y / 2 on a uint8_t: the quotient of the division
Div2(v) == v \div 2

\* y >> 1 on an int8_t: the arithmetic shift keeps the sign bit
Shr1Signed(v) ==
    FromBits([i \in 0 .. UInt8Bits - 1 |->
                 IF i + 1 < UInt8Bits THEN BitAt(v, i + 1)
                 ELSE BitAt(v, UInt8Bits - 1)], UInt8Bits)

\* y >> 1 on a uint8_t: every bit moves one place down, bit 7 becomes 0
Shr1(v) ==
    FromBits([i \in 0 .. UInt8Bits - 1 |->
                 IF i + 1 < UInt8Bits THEN BitAt(v, i + 1) ELSE 0], UInt8Bits)

\* ---------------------------------------------------------------- state

VARIABLES
    frag,       \* the fragment this behaviour executes
    pc,         \* the statement the fragment is at
    DDRB,       \* data direction register of port B
    runs,       \* completed runs of the pin initialisation
    n,          \* loop variable of the variable-shift loop
    traceA,     \* bitValue values the variable-shift loop gave its body
    pcB,        \* the statement the shifting loop is at
    bitValue,   \* loop variable of the shifting loop
    traceB,     \* bitValue values the shifting loop gave its body
    x, y,       \* "Given uint8_t x,y"
    a, b,       \* the two random draws of the reproduction snippet
    c0,         \* c[0], first element of the global uint8_t array c
    useShift,   \* TRUE when the commented-out line 'b = a >> 1' is the one compiled
    stored,     \* TRUE once '*c = b' has been executed
    labels,     \* the case labels of the switch statement
    dflt,       \* the existing case that is additionally marked 'default'
    sel,        \* the value switched on
    branchPlain,    \* branch executed by the switch without a default
    branchMarked    \* branch executed by the switch with the default

pinVars == <<DDRB, runs>>
loopVars == <<n, traceA, pcB, bitValue, traceB>>
divVars == <<x, y>>
reproVars == <<a, b, c0, useShift, stored>>
switchVars == <<labels, dflt, sel, branchPlain, branchMarked>>

vars == <<frag, pc, pinVars, loopVars, divVars, reproVars, switchVars>>

Fragments == {"pins", "loops", "divshift", "repro", "switch"}

\* ------------------------------------------- TinyJoypad pin initialisation

\* the mask with the pin D1 forgotten
InputMaskWithoutPB1 == BitOr(ShlN(1, PB5), ShlN(1, PB3))

\* ( 1 << PB5 ) | ( 1 << PB3 ) | ( 1 << PB1 ), the input pins A0, A3 and D1
InputMask == BitOr(BitOr(ShlN(1, PB5), ShlN(1, PB3)), ShlN(1, PB1))

\* ( 1 << PB4 ), the output pin A2
OutputMask == ShlN(1, PB4)

\* DDRB = ~( ... ), the register assigned instead of masked
AssignInputs(d) == BitNot(InputMask)

\* DDRB &= ~( ... )
ClearInputs(d) == BitAnd(d, BitNot(InputMask))

\* DDRB |= ( 1 << PB4 )
SetOutput(d) == BitOr(d, OutputMask)

ConfigureInputs ==
    /\ frag = "pins" /\ pc = "inputs"
    /\ DDRB' = ClearInputs(DDRB)
    /\ pc' = "output"
    /\ UNCHANGED <<frag, runs, loopVars, divVars, reproVars, switchVars>>

ConfigureOutput ==
    /\ frag = "pins" /\ pc = "output"
    /\ DDRB' = SetOutput(DDRB)
    /\ runs' = runs + 1
    /\ pc' = "done"
    /\ UNCHANGED <<frag, loopVars, divVars, reproVars, switchVars>>

\* the initialisation is executed again (a second call of setup code)
RunAgain ==
    /\ frag = "pins" /\ pc = "done"
    /\ runs < MaxRuns
    /\ pc' = "inputs"
    /\ UNCHANGED <<frag, pinVars, loopVars, divVars, reproVars, switchVars>>

\* ---------------------------------------------------------- the two loops

\* for ( uint8_t n = 0; n < 8; n++ ) { uint8_t bitValue = ( 1 << n ); ... }
LoopABody ==
    /\ frag = "loops" /\ pc = "loopA"
    /\ n < UInt8Bits
    /\ traceA' = Append(traceA, Truncate8(ShlN(1, n)))
    /\ n' = Truncate8(n + 1)
    /\ UNCHANGED <<frag, pc, pinVars, pcB, bitValue, traceB, divVars, reproVars, switchVars>>

LoopAExit ==
    /\ frag = "loops" /\ pc = "loopA"
    /\ ~(n < UInt8Bits)
    /\ pc' = "done"
    /\ UNCHANGED <<frag, pinVars, loopVars, divVars, reproVars, switchVars>>

\* for ( uint8_t bitValue = 1; bitValue != 0; bitValue <<= 1 ) { ... }
LoopBBody ==
    /\ frag = "loops" /\ pcB = "loopB"
    /\ bitValue # 0
    /\ traceB' = Append(traceB, bitValue)
    /\ bitValue' = Shl1(bitValue)
    /\ UNCHANGED <<frag, pc, pinVars, n, traceA, pcB, divVars, reproVars, switchVars>>

LoopBExit ==
    /\ frag = "loops" /\ pcB = "loopB"
    /\ ~(bitValue # 0)
    /\ pcB' = "done"
    /\ UNCHANGED <<frag, pc, pinVars, n, traceA, bitValue, traceB, divVars, reproVars, switchVars>>

\* ------------------------------------------------------ divide and shift

\* x = y / 2;
AssignDiv ==
    /\ frag = "divshift" /\ pc = "div"
    /\ x' = Truncate8(Div2(y))
    /\ pc' = "shift"
    /\ UNCHANGED <<frag, y, pinVars, loopVars, reproVars, switchVars>>

\* x = y >> 1;
AssignShift ==
    /\ frag = "divshift" /\ pc = "shift"
    /\ x' = Truncate8(Shr1(y))
    /\ pc' = "done"
    /\ UNCHANGED <<frag, y, pinVars, loopVars, reproVars, switchVars>>

\* ------------------------------------------------ the reproduction snippet

\* random( 12 ) returns one of 0 .. 11
RandomMaxA == 12

\* random( 24 ) returns one of 0 .. 23
RandomMaxB == 24

\* random( max ): a value of 0 .. max - 1
Random(max) == 0 .. (max - 1)

\* if ( a >= b )
GuardOrEqual(va, vb) == va >= vb

\* if ( a > b )
Guard(va, vb) == va > vb

\* uint8_t a = random( 12 );
DrawA ==
    /\ frag = "repro" /\ pc = "drawA"
    /\ \E r \in Random(RandomMaxA) : a' = Truncate8(r)
    /\ pc' = "drawB"
    /\ UNCHANGED <<frag, b, c0, useShift, stored, pinVars, loopVars, divVars, switchVars>>

\* uint8_t b = random( 24 );
DrawB ==
    /\ frag = "repro" /\ pc = "drawB"
    /\ \E r \in Random(RandomMaxB) : b' = Truncate8(r)
    /\ pc' = "test"
    /\ UNCHANGED <<frag, a, c0, useShift, stored, pinVars, loopVars, divVars, switchVars>>

\* if ( a > b ) { ... }
Test ==
    /\ frag = "repro" /\ pc = "test"
    /\ pc' = IF Guard(a, b) THEN "halve" ELSE "done"
    /\ UNCHANGED <<frag, reproVars, pinVars, loopVars, divVars, switchVars>>

\* b = a / 2;   or, when compiled instead,   b = a >> 1;
Halve ==
    /\ frag = "repro" /\ pc = "halve"
    /\ b' = Truncate8(IF useShift THEN Shr1(a) ELSE Div2(a))
    /\ pc' = "store"
    /\ UNCHANGED <<frag, a, c0, useShift, stored, pinVars, loopVars, divVars, switchVars>>

\* *c = b;
Store ==
    /\ frag = "repro" /\ pc = "store"
    /\ c0' = b
    /\ stored' = TRUE
    /\ pc' = "done"
    /\ UNCHANGED <<frag, a, b, useShift, pinVars, loopVars, divVars, switchVars>>

\* ------------------------------------------------- switch with a default

\* no branch of the switch is executed: control passes behind the statement
NoBranch == -1

\* the switch has no default label
NoDefault == -1

Selectors == 0 .. MaxSel

\* a default that takes every value, the handled ones too
DispatchDefaultFirst(ls, d, s) ==
    IF d # NoDefault THEN d
    ELSE IF s \in ls THEN s
    ELSE NoBranch

\* The branch a switch statement executes for selector s: the case whose
\* label equals s; without one, the case marked default; without a default,
\* none.  A branch is named by its case label.
Dispatch(ls, d, s) ==
    IF s \in ls THEN s
    ELSE IF d # NoDefault THEN d
    ELSE NoBranch

\* the switch as written, all the sensible cases coded, no default
SwitchPlain ==
    /\ frag = "switch" /\ pc = "plain"
    /\ branchPlain' = Dispatch(labels, NoDefault, sel)
    /\ pc' = "marked"
    /\ UNCHANGED <<frag, labels, dflt, sel, branchMarked, pinVars, loopVars, divVars, reproVars>>

\* the same switch with one of the existing cases marked default
SwitchMarked ==
    /\ frag = "switch" /\ pc = "marked"
    /\ branchMarked' = Dispatch(labels, dflt, sel)
    /\ pc' = "done"
    /\ UNCHANGED <<frag, labels, dflt, sel, branchPlain, pinVars, loopVars, divVars, reproVars>>

\* ---------------------------------------------------------- specification

Init ==
    /\ frag \in Fragments
    /\ pc = CASE frag = "pins" -> "inputs"
              [] frag = "loops" -> "loopA"
              [] frag = "divshift" -> "div"
              [] frag = "repro" -> "drawA"
              [] frag = "switch" -> "plain"
    /\ DDRB \in (IF frag = "pins" THEN UInt8 ELSE {0})
    /\ runs = 0
    /\ n = 0
    /\ traceA = <<>>
    /\ pcB = IF frag = "loops" THEN "loopB" ELSE "idle"
    /\ bitValue = 1
    /\ traceB = <<>>
    /\ x = 0
    /\ y \in (IF frag = "divshift" THEN UInt8 ELSE {0})
    /\ a = 0
    /\ b = 0
    /\ c0 \in (IF frag = "repro" THEN 0 .. MaxC0 ELSE {0})
    /\ useShift \in (IF frag = "repro" THEN BOOLEAN ELSE {FALSE})
    /\ stored = FALSE
    /\ labels \in (IF frag = "switch" THEN (SUBSET Selectors) \ {{}} ELSE {{0}})
    /\ dflt \in (IF frag = "switch" THEN labels ELSE {0})
    /\ sel \in (IF frag = "switch" THEN Selectors ELSE {0})
    /\ branchPlain = NoBranch
    /\ branchMarked = NoBranch

Next ==
    \/ ConfigureInputs
    \/ ConfigureOutput
    \/ RunAgain
    \/ LoopABody
    \/ LoopAExit
    \/ LoopBBody
    \/ LoopBExit
    \/ AssignDiv
    \/ AssignShift
    \/ DrawA
    \/ DrawB
    \/ Test
    \/ Halve
    \/ Store
    \/ SwitchPlain
    \/ SwitchMarked

Spec == Init /\ [][Next]_vars

\* The processor executes the next statement as long as there is one.
FairSpec == Spec /\ WF_vars(Next)

\* ------------------------------------------------------------- properties

\* C1: once the two statements of the pin initialisation have been executed,
\* whatever DDRB held before, bits 5, 3 and 1 of DDRB are 0 (inputs) and
\* bit 4 is 1 (output).
C1_PinsConfigured ==
    (frag = "pins" /\ pc = "done") =>
        /\ BitAt(DDRB, 5) = 0 /\ BitAt(DDRB, 3) = 0 /\ BitAt(DDRB, 1) = 0
        /\ BitAt(DDRB, 4) = 1

\* the initialisation has run once on a register that had bits set elsewhere
C1_Witness ==
    frag = "pins" /\ pc = "done" /\ runs = 1 /\ DDRB = 2^7 + 2^4 + 2^0

\* C6: no step of the pin initialisation changes bit 0, 2, 6 or 7 of DDRB
\* (so only bits 1, 3, 4 and 5 can differ from the initial value), and once
\* the two statements have run, running them again leaves DDRB as it is.
C6_PinFrame ==
    [][frag = "pins" =>
          /\ \A i \in {0, 2, 6, 7} : BitAt(DDRB', i) = BitAt(DDRB, i)
          /\ (runs >= 1 => DDRB' = DDRB)]_vars

\* the second run has ended with all of bits 0, 2, 6, 7 still set
C6_Witness ==
    /\ frag = "pins" /\ pc = "done" /\ runs = 2
    /\ DDRB = 2^7 + 2^6 + 2^4 + 2^2 + 2^0

PowersOfTwo == [i \in 1 .. 8 |-> 2^(i - 1)]

\* C2: the shifting loop gives its body the values the variable-shift loop
\* gives it, in the same order: at every moment the two sequences agree
\* where both are defined, and when both loops have ended each has run its
\* body exactly 8 times, on 1, 2, 4, 8, 16, 32, 64, 128.
C2_SameSequence ==
    frag = "loops" =>
        /\ \A i \in 1 .. Len(traceA) : i <= Len(traceB) => traceA[i] = traceB[i]
        /\ (pc = "done" /\ pcB = "done") =>
              /\ Len(traceB) = 8
              /\ traceB = PowersOfTwo
              /\ traceA = traceB

\* both loops have ended
C2_Witness ==
    /\ frag = "loops" /\ pc = "done" /\ pcB = "done"
    /\ Len(traceA) = 8 /\ traceA[8] = 128

\* v has exactly one bit set, within 8 bits
OneBit(v) ==
    /\ v < 2^UInt8Bits
    /\ Cardinality({i \in 0 .. UInt8Bits - 1 : BitAt(v, i) = 1}) = 1

\* C7: the shifting loop terminates; whenever its body is about to run
\* bitValue has exactly one bit set; bitValue becomes 0 only by the shift of
\* 128, whose result 256 is truncated to 0, after 8 iterations; and the exit
\* condition is false exactly when the loop ends.
C7_Terminates ==
    /\ [](frag = "loops" /\ bitValue # 0 => OneBit(bitValue))
    /\ [](frag = "loops" /\ bitValue = 0 => Len(traceB) = 8 /\ traceB[8] = 128)
    /\ [][frag = "loops" /\ bitValue' = 0 /\ bitValue # 0 =>
             bitValue = 128 /\ bitValue * 2 = 2^UInt8Bits]_vars
    /\ [][frag = "loops" /\ pcB' = "done" /\ pcB # "done" => bitValue = 0]_vars
    /\ (frag = "loops") ~> (pcB = "done")

\* the shifting loop has ended, on the truncated shift of 128
C7_Witness ==
    frag = "loops" /\ pcB = "done" /\ bitValue = 0 /\ Len(traceB) = 8

\* C3: for every uint8_t y, 'x = y >> 1' executed after 'x = y / 2' leaves x
\* as the division set it: both assign the same value.
C3_DivideIsShift ==
    [][frag = "divshift" /\ pc = "shift" => x' = x /\ x' = y \div 2]_vars

\* both assignments have been executed, for an odd y with bit 7 set
C3_Witness ==
    frag = "divshift" /\ pc = "done" /\ y = 255 /\ x = 127

C8_Snippet ==
    /\ [](frag = "repro" /\ stored => c0 = a \div 2 /\ c0 \in 0 .. 5 /\ b = c0)
    /\ [](frag = "repro" => a \in 0 .. 11 /\ b \in 0 .. 23)
    /\ [][frag = "repro" /\ pc = "test" =>
             /\ (a > b) <=> (pc' = "halve")
             /\ ~(a > b) => pc' = "done" /\ b' = b /\ c0' = c0 /\ ~stored']_vars
    /\ [][frag = "repro" /\ (stored' # stored \/ c0' # c0) => pc = "store"]_vars
    /\ [][frag = "repro" /\ pc = "done" => b' = b /\ c0' = c0]_vars
    /\ (frag = "repro" /\ pc = "test" /\ a > b) ~> stored

\* the branch was taken with the shift compiled, and c[0] overwritten
C8_Witness ==
    frag = "repro" /\ stored /\ useShift /\ a = 11 /\ c0 = 5

\* the branch was skipped on equal draws
C8_SkippedWitness ==
    frag = "repro" /\ pc = "done" /\ ~stored /\ a = 7 /\ b = 7 /\ c0 = 3

====
